---- MODULE Spec2Model ----
(***************************************************************************)
(* The questionnaire submission engine of care/emr/resources/questionnaire *)
(* (utils.py): handle_response and the functions it calls.                 *)
(*                                                                         *)
(* A questionnaire is a tree of question dicts.  The model keeps the tree  *)
(* as a table: def[q] holds the keys of question q that are never written, *)
(* questions is questionnaire_obj.questions, sub[q] is q["questions"].     *)
(* A question id is a number 1..MaxQ (the UUID), its link_id is LinkOf(q). *)
(***************************************************************************)
EXTENDS Integers, Sequences, FiniteSets, TLC

\* ------------------------------------------------------------------ bounds
MaxQ == 3          \* questions of a questionnaire
MaxCond == 2       \* questions of one questionnaire that carry enable_when
MaxRules == 2      \* rules of one enable_when list
MaxReps == 2       \* repetitions submitted for a repeating group
MaxVals == 2       \* values of one submitted answer

Node == 1..MaxQ

VARIABLES
    status,          \* questionnaire_obj.status
    subject_type,    \* questionnaire_obj.subject_type
    patient_found,   \* Patient.objects.filter(external_id=results.patient).first() is not None
    encounter_found, \* Encounter.objects.filter(external_id=results.encounter).first() is not None
    def,             \* the keys of every question dict that handle_response only reads
    questions,       \* questionnaire_obj.questions: the top-level list of question ids
    sub,             \* sub[q]: q["questions"]
    results,         \* results.results: the raw result list
    responses,       \* the response map of handle_response
    disabled,        \* the questions for which the pruner took its "disabled" branch
    errors,          \* the error list of handle_response
    raised,          \* the exception handle_response ended with ("none" while it runs)
    observations,    \* the observation specs built by convert_to_observation_spec
    stored_response, \* QuestionnaireResponse rows: the stored responses lists
    stored_obs,      \* Observation rows
    parent_key,      \* parent_key[q]: the "parent" key of question dict q (-1: no such key)
    loaded,          \* the questionnaire tree as handle_response received it
    submitted,       \* results.results as handle_response received it
    pc               \* the stage handle_response has reached

vars == << status, subject_type, patient_found, encounter_found, def, questions, sub,
           results, responses, disabled, errors, raised, observations,
           stored_response, stored_obs, parent_key, loaded, submitted, pc >>

\* ------------------------------------------------------------------ values
\* A JSON scalar: None, a string or a number.  value.value of a submitted
\* answer is a string or None; rule.answer is any scalar.
None == [t |-> "none", s |-> "", n |-> 0]
Str(x) == [t |-> "str", s |-> x, n |-> 0]
Num(i) == [t |-> "num", s |-> "", n |-> i]

\* The strings of the model and what Python's float() makes of them
\* (a string outside the table raises ValueError).
\* Numbers are kept in hundredths.
FloatTable == ("3" :> 300) @@ ("5" :> 500) @@ ("5.0" :> 500) @@ ("7" :> 700)
              @@ ("10" :> 1000) @@ ("12.34" :> 1234)
\* The strings int() accepts.
IntStrs == {"3", "5", "7", "10"}

\* A JSON integer beyond the range of a float (json.loads makes it an int).
Huge == [t |-> "num", s |-> "1e400", n |-> 0]

\* float(v): [ok |-> FALSE] stands for TypeError (None) or ValueError, which
\* the numeric operators catch; float of an int beyond the float range raises
\* OverflowError (see FloatOverflows).
ToFloat(v) ==
    IF v = Huge THEN [ok |-> FALSE, val |-> 0]
    ELSE IF v.t = "num" THEN [ok |-> TRUE, val |-> 100 * v.n]
    ELSE IF v.t = "str" /\ v.s \in DOMAIN FloatTable THEN [ok |-> TRUE, val |-> FloatTable[v.s]]
    ELSE [ok |-> FALSE, val |-> 0]

\* float(v) raises OverflowError.
FloatOverflows(v) == v = Huge

\* link_id of question q: unique across the tree, distinct from every id.
LinkOf(q) == 100 + q
\* A link_id that no question of the tree carries.
NoSuchLink == LinkOf(0)

EmptyMap == [k \in {} |-> 0]

\* dict.pop(key, None)
Pop(m, k) == [x \in DOMAIN m \ {k} |-> m[x]]

\* [r for r in results.results if str(r.question_id) != id]
WithoutId(rs, id) == SelectSeq(rs, LAMBDA r : r.question_id # id)

RECURSIVE ResponsesFold(_, _, _)
ResponsesFold(rs, i, m) ==
    IF i > Len(rs) THEN m
    ELSE ResponsesFold(rs, i + 1, (rs[i].question_id :> rs[i]) @@ m)

\* create_responses_mapping: a later entry for the same id replaces an earlier one.
create_responses_mapping(rs) == ResponsesFold(rs, 1, EmptyMap)

\* ------------------------------------------------------------------ link resolver
RECURSIVE LinkFold(_, _, _, _)
\* get_link_id_map over the list qs, reading the children lists in s.
get_link_id_map(qs, s) == LinkFold(qs, 1, EmptyMap, s)

LinkFold(qs, i, m, s) ==
    IF i > Len(qs) THEN m
    ELSE LET q == qs[i]
             m1 == (def[q].link_id :> q) @@ m
             m2 == IF s[q] # <<>> THEN get_link_id_map(s[q], s) @@ m1 ELSE m1
         IN LinkFold(qs, i + 1, m2, s)

\* ------------------------------------------------------------------ enablement
\* EvalRule with equals and not_equals comparing numbers where both sides parse.
EvalRuleCoercing(operator, cv, expected) ==
    LET a == ToFloat(cv)
        b == ToFloat(expected)
        same == IF a.ok /\ b.ok THEN a.val = b.val ELSE cv = expected
    IN CASE operator = "exists" -> cv # None
         [] operator = "equals" -> same
         [] operator = "not_equals" -> ~same
         [] operator = "greater" -> a.ok /\ b.ok /\ a.val > b.val
         [] operator = "less" -> a.ok /\ b.ok /\ a.val < b.val
         [] operator = "greater_or_equals" -> a.ok /\ b.ok /\ a.val >= b.val
         [] operator = "less_or_equals" -> a.ok /\ b.ok /\ a.val <= b.val
         [] OTHER -> FALSE

\* One rule of enable_when applied to the left-hand side cv.
EvalRule(operator, cv, expected) ==
    LET a == ToFloat(cv)
        b == ToFloat(expected)
    IN CASE operator = "exists" -> cv # None
         [] operator = "equals" -> cv = expected
         [] operator = "not_equals" -> cv # expected
         [] operator = "greater" -> a.ok /\ b.ok /\ a.val > b.val
         [] operator = "less" -> a.ok /\ b.ok /\ a.val < b.val
         [] operator = "greater_or_equals" -> a.ok /\ b.ok /\ a.val >= b.val
         [] operator = "less_or_equals" -> a.ok /\ b.ok /\ a.val <= b.val
         [] OTHER -> FALSE

\* The left-hand side of a rule: the first value of the referenced answer.
ConditionValue(id, resp) ==
    IF id \notin DOMAIN resp \/ resp[id].values = <<>> THEN None
    ELSE resp[id].values[1].value

\* The result of one rule of question q.
RuleResult(c, resp, m) ==
    IF c.question \notin DOMAIN m THEN FALSE
    ELSE EvalRule(c.operator, ConditionValue(m[c.question], resp), c.answer)

NumericOperators == {"greater", "less", "greater_or_equals", "less_or_equals"}

\* The evaluation of rule c raises: a numeric operator whose left side
\* converts and whose right side overflows (the except clauses name
\* TypeError and ValueError only).
RuleRaises(c, resp, m) ==
    /\ c.question \in DOMAIN m
    /\ c.operator \in NumericOperators
    /\ LET cv == ConditionValue(m[c.question], resp)
       IN FloatOverflows(cv) \/ (ToFloat(cv).ok /\ FloatOverflows(c.answer))

\* is_question_enabled raises: the loop evaluates every rule of the question.
EnablementRaises(q, resp, qs, s) ==
    \E i \in 1..Len(def[q].enable_when) :
        RuleRaises(def[q].enable_when[i], resp, get_link_id_map(qs, s))

\* is_question_enabled(question, responses, questionnaire_obj), where
\* questionnaire_obj.questions is qs and the children lists are s.
is_question_enabled(q, resp, qs, s) ==
    LET m == get_link_id_map(qs, s)
        conditions == def[q].enable_when
        behavior == IF def[q].enable_behavior = "absent" THEN "all" ELSE def[q].enable_behavior
    IN IF conditions = <<>> THEN TRUE
       ELSE IF behavior = "all"
            THEN \A i \in 1..Len(conditions) : RuleResult(conditions[i], resp, m)
            ELSE \E i \in 1..Len(conditions) : RuleResult(conditions[i], resp, m)

\* ------------------------------------------------------------------ pruner
\* The removal of the answer of q that also removes the entries of q from
\* the repetitions in sub_results.
DropAnswerInRepetitions(ps, q) ==
    [ps EXCEPT
        !.resp = Pop(ps.resp, q),
        !.res = [i \in 1..Len(WithoutId(ps.res, q)) |->
                    [WithoutId(ps.res, q)[i] EXCEPT
                        !.sub_results = [k \in 1..Len(@) |-> WithoutId(@[k], q)]]]]

\* The removal of the answer of q that also drops the entries of the
\* questions with a larger id.
DropAnswerAndLater(ps, q) ==
    [ps EXCEPT !.resp = Pop(ps.resp, q),
               !.res = SelectSeq(ps.res, LAMBDA r : r.question_id < q)]

\* The state the pruning stage threads through its loops:
\* [resp: responses, res: results.results, sub: the children lists, dis: disabled,
\* raised: the exception that left is_question_enabled, "none" without one].
DropAnswer(ps, q) ==
    [ps EXCEPT !.resp = Pop(ps.resp, q), !.res = WithoutId(ps.res, q)]

RECURSIVE RemoveFold(_, _, _)
\* remove_nested_questions that drops the answers of the children of g and
\* does not go into the groups among them.
remove_children_only(g, ps) ==
    LET kids == {ps.sub[g][i] : i \in 1..Len(ps.sub[g])}
    IN [ps EXCEPT !.resp = [x \in DOMAIN ps.resp \ kids |-> ps.resp[x]],
                  !.res = SelectSeq(ps.res, LAMBDA r : r.question_id \notin kids)]

\* remove_nested_questions(group_question, responses, results)
remove_nested_questions(g, ps) == RemoveFold(ps.sub[g], 1, ps)

RemoveFold(children, i, ps) ==
    IF i > Len(children) THEN ps
    ELSE LET child == children[i]
             p1 == DropAnswer(ps, child)
             p2 == IF def[child].type = "group" THEN remove_nested_questions(child, p1) ELSE p1
         IN RemoveFold(children, i + 1, p2)

\* The branch both pruning loops take for a question found disabled.
DisableQuestion(q, ps) ==
    LET p1 == [DropAnswer(ps, q) EXCEPT !.dis = @ \cup {q}]
    IN IF def[q].type = "group" THEN remove_nested_questions(q, p1) ELSE p1

RECURSIVE PruneFold(_, _, _, _, _)
\* prune_nested_disabled_questions(question, responses, results, questionnaire_obj);
\* qs is questionnaire_obj.questions.
prune_nested_disabled_questions(g, ps, qs) ==
    IF ps.sub[g] # <<>>
    THEN LET r == PruneFold(ps.sub[g], 1, <<>>, ps, qs)
         IN IF r.ps.raised # "none" THEN r.ps ELSE [r.ps EXCEPT !.sub[g] = r.kept]
    ELSE ps

\* The loop over the children of a question (or over the top-level list):
\* kept collects enabled_children (valid_questions).
PruneFold(children, i, kept, ps, qs) ==
    IF i > Len(children) \/ ps.raised # "none" THEN [kept |-> kept, ps |-> ps]
    ELSE LET child == children[i]
         IN IF def[child].has_enable_when /\ EnablementRaises(child, ps.resp, qs, ps.sub)
            THEN [kept |-> kept, ps |-> [ps EXCEPT !.raised = "OverflowError"]]
            ELSE IF def[child].has_enable_when
                    /\ ~is_question_enabled(child, ps.resp, qs, ps.sub)
            THEN PruneFold(children, i + 1, kept, DisableQuestion(child, ps), qs)
            ELSE LET p1 == IF def[child].type = "group"
                           THEN prune_nested_disabled_questions(child, ps, qs)
                           ELSE ps
                 IN PruneFold(children, i + 1, Append(kept, child), p1, qs)

\* The pruning stage of handle_response on the tree (qs, s): the top-level
\* loop and the assignment of valid_questions to questionnaire_obj.questions.
PruneStage(qs, s, resp, res) ==
    LET r == PruneFold(qs, 1, <<>>,
                       [resp |-> resp, res |-> res, sub |-> s, dis |-> {}, raised |-> "none"],
                       qs)
    IN [questions |-> IF r.ps.raised # "none" THEN qs ELSE r.kept,
        sub |-> r.ps.sub, responses |-> r.ps.resp,
        results |-> r.ps.res, disabled |-> r.ps.dis, raised |-> r.ps.raised]

\* ------------------------------------------------------------------ validator
\* What the type checks of validate_data make of the strings of the model.
BoolStrs == {"true", "false", "1", "0"}
\* str.lower()
Lower(s) == IF s = "True" THEN "true" ELSE s
\* The strings dateutil's isoparse accepts (a date, or a date and a time).
IsoStrs == {"2023-12-31", "2023-12-31T15:30:00"}
\* The strings strptime(..., "%H:%M:%S") accepts.
TimeStrs == {"15:30:00"}
\* The strings urlparse splits into a scheme and a netloc.
UrlStrs == {"http://example.com"}
\* The strings longer than settings.MAX_QUESTIONNAIRE_TEXT_RESPONSE_SIZE.
LongStrs == {"LONG"}

\* validate_valueset("", slug, coding), by the submitted coding: "ok", or the
\* exception it raises.
validate_valueset(coding) ==
    CASE coding = "in" -> "ok"
      [] coding = "out" -> "ValueError"
      [] OTHER -> "Exception"

InvalidMsg(type) ==
    CASE type = "integer" -> "Invalid integer"
      [] type = "decimal" -> "Invalid decimal"
      [] type = "date" -> "Invalid date"
      [] type = "dateTime" -> "Invalid dateTime"
      [] type = "time" -> "Invalid time"
      [] type = "choice" -> "Invalid choice"
      [] type = "url" -> "Invalid url"
      [] OTHER -> "Invalid"

\* The messages validate_data appends for one value of a question q of the type.
ValueErrors(v, type, q) ==
    IF v.value = None THEN <<>>
    ELSE LET s == v.value.s
         IN CASE type = "integer" -> IF s \in IntStrs THEN <<>> ELSE <<InvalidMsg(type)>>
              [] type = "decimal" ->
                    IF s \in DOMAIN FloatTable THEN <<>> ELSE <<InvalidMsg(type)>>
              [] type = "boolean" ->
                    IF Lower(s) \in BoolStrs THEN <<>> ELSE <<"Invalid boolean value">>
              [] type = "date" -> IF s \in IsoStrs THEN <<>> ELSE <<InvalidMsg(type)>>
              [] type = "dateTime" -> IF s \in IsoStrs THEN <<>> ELSE <<InvalidMsg(type)>>
              [] type = "time" -> IF s \in TimeStrs THEN <<>> ELSE <<InvalidMsg(type)>>
              [] type = "choice" ->
                    \* get_valid_choices raises ValueError without answer_option
                    IF def[q].answer_option # {} /\ s \in def[q].answer_option
                    THEN <<>> ELSE <<InvalidMsg(type)>>
              [] type = "url" -> IF s \in UrlStrs THEN <<>> ELSE <<InvalidMsg(type)>>
              [] type = "text" -> IF s \in LongStrs THEN <<"Text too long">> ELSE <<>>
              [] OTHER -> <<>>

RECURSIVE validate_data(_, _, _)
\* validate_data(values, value_type, questionnaire_ref): the list of messages.
validate_data(values, type, q) ==
    IF values = <<>> THEN <<>>
    ELSE ValueErrors(Head(values), type, q) \o validate_data(Tail(values), type, q)

\* The state validation threads through its recursion: [errors, mapping
\* (questionnaire_mapping: the required and parent keys of the dict stored
\* under each group id), parent (the "parent" key of every question dict of
\* the tree, "unset" before the first visit), raised].
TypeError(q, msg) == [type |-> "type_error", question_id |-> q, msg |-> msg]
ValuesetError(q) ==
    [type |-> "valueset_error", question_id |-> q,
     msg |-> "Coding does not belong to the valueset"]
ValuesMissing(q) ==
    [question_id |-> q, type |-> "values_missing", msg |-> "No value provided for question"]
NotAnswered(q) == [question_id |-> q, error |-> "Question not answered"]

RECURSIVE RequiredChain(_, _, _)
\* check_required on the dict stored in questionnaire_ref under id: "yes",
\* "no", or "RecursionError" when the parent chain comes back to a dict seen.
RequiredChain(id, mapping, seen) ==
    IF id \in seen THEN "RecursionError"
    ELSE IF mapping[id].required THEN "yes"
    ELSE IF mapping[id].parent = 0 THEN "no"
    ELSE RequiredChain(mapping[id].parent, mapping, seen \cup {id})

\* check_required(questionnaire, questionnaire_ref) for a question q whose
\* "parent" key is parent (0 for None).
check_required(q, parent, mapping) ==
    IF def[q].required THEN "yes"
    ELSE IF parent = 0 THEN "no"
    ELSE RequiredChain(parent, mapping, {})

RECURSIVE CodingFold(_, _, _, _)
\* The loop over the values of a choice question bound to a valueset.
CodingFold(q, values, i, vs) ==
    IF i > Len(values) THEN vs
    ELSE IF values[i].coding = "none"
    THEN [vs EXCEPT !.errors = Append(@, TypeError(q, "Coding is required"))]
    ELSE LET out == validate_valueset(values[i].coding)
         IN IF out = "ok" THEN CodingFold(q, values, i + 1, vs)
            ELSE IF out = "ValueError"
            THEN CodingFold(q, values, i + 1,
                            [vs EXCEPT !.errors = Append(@, ValuesetError(q))])
            ELSE [vs EXCEPT !.raised = out]

RECURSIVE QuantityFold(_, _, _, _)
\* The loop over the values of a quantity question.
QuantityFold(q, values, i, vs) ==
    IF i > Len(values) THEN vs
    ELSE IF ~values[i].unit
    THEN [vs EXCEPT !.errors = Append(@, TypeError(q, "Quantity is required"))]
    ELSE IF def[q].answer_value_set = "absent" THEN QuantityFold(q, values, i + 1, vs)
    ELSE LET out == validate_valueset(values[i].coding)
         IN IF out = "ok" THEN QuantityFold(q, values, i + 1, vs)
            ELSE IF out = "ValueError"
            THEN QuantityFold(q, values, i + 1,
                              [vs EXCEPT !.errors = Append(@, ValuesetError(q))])
            ELSE [vs EXCEPT !.raised = out]

\* The values validate_question_result checks for question q.
ConsideredValues(q, values) ==
    IF def[q].repeats /\ values # <<>> THEN <<values[1]>> ELSE values

TypeErrors(q, msgs) == [i \in 1..Len(msgs) |-> TypeError(q, msgs[i])]

\* The checks of the leaf branch of validate_question_result (lines 215-311).
LeafChecks(q, resp, parent, vs) ==
    IF q \notin DOMAIN resp
    THEN IF def[q].required
         THEN [vs EXCEPT !.errors = Append(@, NotAnswered(q))]
         ELSE vs
    ELSE LET all == resp[q].values
             req == IF all = <<>> THEN check_required(q, parent, vs.mapping) ELSE "no"
             values == ConsideredValues(q, all)
             v1 == [vs EXCEPT !.errors =
                        @ \o TypeErrors(q, validate_data(values, def[q].type, q))]
         IN IF req = "RecursionError" THEN [vs EXCEPT !.raised = "RecursionError"]
            ELSE IF req = "yes" THEN [vs EXCEPT !.errors = Append(@, ValuesMissing(q))]
            ELSE IF def[q].type = "choice" /\ def[q].answer_value_set # "absent"
            THEN CodingFold(q, values, 1, v1)
            ELSE IF def[q].type = "quantity" THEN QuantityFold(q, values, 1, v1)
            ELSE v1

\* A leaf branch that returns at once when an earlier question has an error.
ValidateLeafFailFast(q, resp, parent, vs) ==
    IF vs.errors # <<>> THEN vs ELSE LeafChecks(q, resp, parent, vs)

\* The leaf branch of validate_question_result.
ValidateLeaf(q, resp, parent, vs) == LeafChecks(q, resp, parent, vs)

RECURSIVE validate_question_result(_, _, _, _, _, _)
RECURSIVE ValidateList(_, _, _, _, _, _)
RECURSIVE ValidateRepetitions(_, _, _, _, _)

\* validate_question_result(questionnaire, responses, errors, parent,
\* questionnaire_mapping) on question q of the tree s; copy says that
\* questionnaire is the copy of a repeating group made for one repetition
\* (its repeats key set to False).
validate_question_result(q, copy, resp, parent, vs, s) ==
    IF vs.raised # "none" THEN vs
    ELSE LET v0 == IF copy THEN vs ELSE [vs EXCEPT !.parent[q] = parent]
             v1 == [v0 EXCEPT !.mapping =
                        (q :> [required |-> def[q].required, parent |-> parent]) @@ @]
         IN CASE def[q].type = "structured" -> v0
              [] def[q].type = "group" ->
                    IF s[q] = <<>> THEN v1
                    ELSE IF def[q].repeats /\ ~copy
                    THEN IF q \notin DOMAIN resp \/ resp[q].sub_results = <<>> THEN v1
                         ELSE ValidateRepetitions(q, resp[q].sub_results, 1, v1, s)
                    ELSE ValidateList(s[q], 1, resp, q, v1, s)
              [] OTHER -> ValidateLeaf(q, resp, parent, v0)

\* for question in questions: validate_question_result(question, responses, ...)
ValidateList(qs, i, resp, parent, vs, s) ==
    IF i > Len(qs) THEN vs
    ELSE ValidateList(qs, i + 1, resp, parent,
                      validate_question_result(qs[i], FALSE, resp, parent, vs, s), s)

\* for sub_responses in response.sub_results: validate the copy of group q
ValidateRepetitions(q, reps, i, vs, s) ==
    IF i > Len(reps) THEN vs
    ELSE ValidateRepetitions(q, reps, i + 1,
            validate_question_result(q, TRUE, create_responses_mapping(reps[i]), q, vs, s), s)

\* The validation stage of handle_response on the pruned tree (qs, s).
ValidateStage(qs, s, resp) ==
    ValidateList(qs, 1, resp, 0,
                 [errors |-> <<>>, mapping |-> EmptyMap,
                  parent |-> [q \in Node |-> -1], raised |-> "none"], s)

\* ------------------------------------------------------------------ observation builder
\* The value key of an observation spec.
NoValue == [kind |-> "unset", value |-> None, coding |-> "none", unit |-> FALSE]
EmptyValue == [kind |-> "empty", value |-> None, coding |-> "none", unit |-> FALSE]

\* An observation spec; id is the uuid4 drawn for it (the n-th drawn is n).
\* main_code, parent: 0 when the key is not set.
ObsSpec(id, q) ==
    [id |-> id, value_type |-> def[q].type, question |-> q,
     main_code |-> IF def[q].code THEN q ELSE 0,
     value |-> NoValue, parent |-> 0, component |-> <<>>, note |-> "", has_component |-> FALSE]

\* The value key create_observation_spec sets for one submitted value.
ObsValue(q, v) ==
    IF def[q].type = "choice" /\ v.coding # "none"
    THEN [kind |-> "coding", value |-> None, coding |-> v.coding, unit |-> FALSE]
    ELSE IF def[q].type = "quantity" /\ v.coding # "none"
    THEN [kind |-> "quantity", value |-> v.value, coding |-> v.coding, unit |-> def[q].unit]
    ELSE [kind |-> "value", value |-> v.value, coding |-> "none", unit |-> def[q].unit]

\* create_observation_spec(questionnaire, response, parent_id): the list it
\* returns and the number of uuid4 drawn so far.  has says whether response
\* is an answer (it is None for a group and for an unanswered question).
create_observation_spec(q, has, response, parent_id, next) ==
    IF def[q].type = "group"
    THEN [obs |-> <<[ObsSpec(next + 1, q) EXCEPT !.value = EmptyValue]>>, next |-> next + 1]
    ELSE IF ~has \/ response.values = <<>> THEN [obs |-> <<>>, next |-> next]
    ELSE LET n == Len(response.values)
             \* every pass of the loop replaces observation: the last one is kept
             last == [ObsSpec(next + n, q) EXCEPT
                         !.value = ObsValue(q, response.values[n]),
                         !.note = response.note,
                         !.parent = parent_id]
         IN [obs |-> <<last>>, next |-> next + n]

\* A component entry that leaves the note out.
ComponentWithoutNote(o) == [value |-> o.value, code |-> o.main_code, note |-> ""]

\* The component entry create_components makes of an observation spec.
Component(o) == [value |-> o.value, code |-> o.main_code, note |-> o.note]

RECURSIVE ComponentsOf(_, _)
ComponentsOf(obs, i) ==
    IF i > Len(obs) THEN <<>>
    ELSE IF obs[i].main_code = 0 \/ obs[i].value = NoValue THEN ComponentsOf(obs, i + 1)
    ELSE <<Component(obs[i])>> \o ComponentsOf(obs, i + 1)

RECURSIVE ConvertFold(_, _, _, _, _, _, _, _)
RECURSIVE ConvertRepetitions(_, _, _, _, _, _, _)

\* convert_to_observation_spec(questionnaire, responses, parent_id, is_component)
\* over the children list qs in the tree s.
convert_to_observation_spec(qs, resp, parent_id, is_component, next, s) ==
    ConvertFold(qs, 1, resp, parent_id, is_component, <<>>, next, s)

\* create_components(questionnaire, responses)
create_components(q, resp, next, s) ==
    LET r == convert_to_observation_spec(s[q], resp, 0, TRUE, next, s)
    IN [components |-> ComponentsOf(r.obs, 1), next |-> r.next]

\* One synthetic observation of a component-carrier group q over resp.
CarrierObservation(q, resp, parent_id, next, s) ==
    LET o == create_observation_spec(q, FALSE, None, parent_id, next)
        c == create_components(q, resp, o.next, s)
    IN [obs |-> <<[o.obs[1] EXCEPT !.component = c.components, !.has_component = TRUE]>>,
        next |-> c.next]

\* for sub_responses in response.sub_results: one synthetic observation each
ConvertRepetitions(q, reps, i, parent_id, acc, next, s) ==
    IF i > Len(reps) THEN [obs |-> acc, next |-> next]
    ELSE LET r == CarrierObservation(q, create_responses_mapping(reps[i]), parent_id, next, s)
         IN ConvertRepetitions(q, reps, i + 1, parent_id, acc \o r.obs, r.next, s)

ConvertFold(qs, i, resp, parent_id, is_component, acc, next, s) ==
    IF i > Len(qs) THEN [obs |-> acc, next |-> next]
    ELSE LET q == qs[i]
             has == q \in DOMAIN resp
             r == IF def[q].type = "group"
                  THEN IF ~is_component /\ def[q].is_component
                       THEN IF def[q].repeats /\ has /\ resp[q].sub_results # <<>>
                            THEN ConvertRepetitions(q, resp[q].sub_results, 1, parent_id,
                                                    <<>>, next, s)
                            ELSE CarrierObservation(q, resp, parent_id, next, s)
                       ELSE LET o == create_observation_spec(q, FALSE, None, parent_id, next)
                                m == convert_to_observation_spec(s[q], resp, o.obs[1].id,
                                                                 FALSE, o.next, s)
                            IN [obs |-> IF m.obs # <<>> THEN o.obs \o m.obs ELSE <<>>,
                                next |-> m.next]
                  ELSE IF def[q].code
                  THEN create_observation_spec(q, has, IF has THEN resp[q] ELSE None,
                                               parent_id, next)
                  ELSE [obs |-> <<>>, next |-> next]
         IN ConvertFold(qs, i + 1, resp, parent_id, is_component, acc \o r.obs, r.next, s)

\* The observation building stage of handle_response.
BuildStage(qs, s, resp) == convert_to_observation_spec(qs, resp, 0, FALSE, 0, s).obs

\* ------------------------------------------------------------------ handle_response
\* The stored forms: questionnaire_response.responses and the Observation rows.
NoRow == <<>>

\* Lines 468-520 with the preconditions tested after the pruning loop.
PruneThenCheck ==
    /\ pc = "Received"
    /\ LET resp == create_responses_mapping(results)
           fail == IF status # "active" THEN "questionnaire_inactive"
                   ELSE IF subject_type # "patient" /\ ~encounter_found
                   THEN "object_not_found:encounter"
                   ELSE IF ~patient_found THEN "object_not_found:patient"
                   ELSE IF DOMAIN resp = {} THEN "questionnaire_empty"
                   ELSE "none"
           r == PruneStage(questions, sub, resp, results)
       IN /\ questions' = r.questions
          /\ sub' = r.sub
          /\ results' = r.results
          /\ disabled' = r.disabled
          /\ IF fail # "none"
             THEN raised' = fail /\ pc' = "Failed" /\ UNCHANGED responses
             ELSE responses' = r.responses /\ pc' = "Pruned" /\ UNCHANGED raised
    /\ UNCHANGED << status, subject_type, patient_found, encounter_found, def, errors,
                    observations, stored_response, stored_obs, parent_key, loaded, submitted >>

\* Lines 468-520 with the emptiness test made on the pruned response map.
PruneThenTestEmpty ==
    /\ pc = "Received"
    /\ LET resp == create_responses_mapping(results)
           r == PruneStage(questions, sub, resp, results)
           fail == IF status # "active" THEN "questionnaire_inactive"
                   ELSE IF subject_type # "patient" /\ ~encounter_found
                   THEN "object_not_found:encounter"
                   ELSE IF ~patient_found THEN "object_not_found:patient"
                   ELSE IF DOMAIN r.responses = {} THEN "questionnaire_empty"
                   ELSE "none"
       IN IF fail # "none"
          THEN /\ raised' = fail
               /\ pc' = "Failed"
               /\ UNCHANGED << questions, sub, results, responses, disabled >>
          ELSE /\ questions' = r.questions
               /\ sub' = r.sub
               /\ responses' = r.responses
               /\ results' = r.results
               /\ disabled' = r.disabled
               /\ pc' = "Pruned"
               /\ UNCHANGED raised
    /\ UNCHANGED << status, subject_type, patient_found, encounter_found, def, errors,
                    observations, stored_response, stored_obs, parent_key, loaded, submitted >>

\* Lines 468-520: the preconditions, the response map and the pruning stage.
Prune ==
    /\ pc = "Received"
    /\ LET resp == create_responses_mapping(results)
           fail == IF status # "active" THEN "questionnaire_inactive"
                   ELSE IF subject_type # "patient" /\ ~encounter_found
                   THEN "object_not_found:encounter"
                   ELSE IF ~patient_found THEN "object_not_found:patient"
                   ELSE IF DOMAIN resp = {} THEN "questionnaire_empty"
                   ELSE "none"
           r == PruneStage(questions, sub, resp, results)
       IN IF fail # "none"
          THEN /\ raised' = fail
               /\ pc' = "Failed"
               /\ UNCHANGED << questions, sub, results, responses, disabled >>
          ELSE /\ questions' = r.questions
               /\ sub' = r.sub
               /\ responses' = r.responses
               /\ results' = r.results
               /\ disabled' = r.disabled
               \* an exception of is_question_enabled leaves handle_response
               /\ pc' = IF r.raised # "none" THEN "Failed" ELSE "Pruned"
               /\ raised' = r.raised
    /\ UNCHANGED << status, subject_type, patient_found, encounter_found, def, errors,
                    observations, stored_response, stored_obs, parent_key, loaded, submitted >>

\* Lines 522-531 without the raise: the stage ends in Validated whatever
\* the error list holds.
ValidateWithoutRaise ==
    /\ pc = "Pruned"
    /\ LET v == ValidateStage(questions, sub, responses)
       IN /\ errors' = v.errors
          /\ parent_key' = [q \in Node |->
                              IF v.parent[q] = -1 THEN parent_key[q] ELSE v.parent[q]]
          /\ raised' = v.raised
          /\ pc' = IF v.raised # "none" THEN "Failed" ELSE "Validated"
    /\ UNCHANGED << status, subject_type, patient_found, encounter_found, def, questions,
                    sub, results, responses, disabled, observations, stored_response,
                    stored_obs, loaded, submitted >>

\* Lines 522-531: validation of every question of the pruned tree.
Validate ==
    /\ pc = "Pruned"
    /\ LET v == ValidateStage(questions, sub, responses)
       IN /\ errors' = v.errors
          /\ parent_key' = [q \in Node |->
                              IF v.parent[q] = -1 THEN parent_key[q] ELSE v.parent[q]]
          /\ raised' = IF v.raised # "none" THEN v.raised
                       ELSE IF v.errors # <<>> THEN "ValidationError" ELSE "none"
          /\ pc' = IF v.raised # "none" THEN "Failed"
                   ELSE IF v.errors # <<>> THEN "Rejected" ELSE "Validated"
    /\ UNCHANGED << status, subject_type, patient_found, encounter_found, def, questions,
                    sub, results, responses, disabled, observations, stored_response,
                    stored_obs, loaded, submitted >>

\* Lines 533-546: the observation specs.
Build ==
    /\ pc = "Validated"
    /\ observations' = BuildStage(questions, sub, responses)
    /\ pc' = "BuiltObservations"
    /\ UNCHANGED << status, subject_type, patient_found, encounter_found, def, questions,
                    sub, results, responses, disabled, errors, raised, stored_response,
                    stored_obs, parent_key, loaded, submitted >>

\* Lines 549-572: QuestionnaireResponse.objects.create, then, with an
\* encounter, Observation.objects.bulk_create; either call may raise.
Persist ==
    /\ pc = "BuiltObservations"
    /\ \E created \in BOOLEAN, bulk \in BOOLEAN :
          \* with no observation the loop and bulk_create([]) do nothing
          /\ observations = <<>> => bulk
          /\ stored_response' = IF created THEN <<results>> ELSE NoRow
          /\ stored_obs' = IF created /\ bulk /\ subject_type # "patient"
                           THEN observations ELSE NoRow
          /\ raised' = IF created /\ (bulk \/ subject_type = "patient")
                       THEN "none" ELSE "StorageError"
          /\ pc' = IF created /\ (bulk \/ subject_type = "patient")
                   THEN "Persisted" ELSE "Failed"
    /\ UNCHANGED << status, subject_type, patient_found, encounter_found, def, questions,
                    sub, results, responses, disabled, errors, observations, parent_key,
                    loaded, submitted >>

Next == Prune \/ Validate \/ Build \/ Persist

\* ------------------------------------------------------------------ inputs
\* A question dict with the optional keys absent.
Q0(q) ==
    [type |-> "string", link_id |-> LinkOf(q), has_enable_when |-> FALSE,
     enable_when |-> <<>>, enable_behavior |-> "absent", required |-> FALSE,
     repeats |-> FALSE, code |-> TRUE, is_component |-> FALSE, answer_option |-> {},
     answer_value_set |-> "absent", unit |-> FALSE]

\* A submitted value and a submitted answer.
Val(x) == [value |-> Str(x), unit |-> FALSE, coding |-> "none"]
Answer(q, values) == [question_id |-> q, values |-> values, note |-> "", sub_results |-> <<>>]

Min(S) == CHOOSE x \in S : \A y \in S : x <= y

RECURSIVE SeqOfSet(_)
\* The elements of a set of numbers in ascending order.
SeqOfSet(S) == IF S = {} THEN <<>> ELSE <<Min(S)>> \o SeqOfSet(S \ {Min(S)})

\* The trees over the questions 1..MaxQ: up[q] is the parent of q (0 at the
\* top level), a parent is a group declared before its children.
Trees == {up \in [Node -> 0..MaxQ] : \A q \in Node : up[q] < q}
ChildrenOf(up, g) == SeqOfSet({q \in Node : up[q] = g})

\* What every run starts from, whatever the questionnaire and the submission.
Fresh ==
    /\ responses = EmptyMap
    /\ disabled = {}
    /\ errors = <<>>
    /\ raised = "none"
    /\ observations = <<>>
    /\ stored_response = NoRow
    /\ stored_obs = NoRow
    /\ parent_key = [q \in Node |-> -1]
    /\ loaded = [questions |-> questions, sub |-> sub]
    /\ submitted = results
    /\ pc = "Received"

\* One rule, or no enable_when, on a question of the pruning inputs.
PruneRules ==
    {<<>>} \cup {<<[question |-> LinkOf(r), operator |-> op, answer |-> Str("a")]>> :
                    r \in Node, op \in {"equals", "not_equals", "exists"}}

\* Pruning inputs: every tree (a question with children is a group), at most
\* MaxCond questions with one rule that references any question of the tree,
\* every leaf answered "a", answered "b" or not answered.
InitPrune ==
    /\ status = "active"
    /\ subject_type = "encounter"
    /\ patient_found = TRUE
    /\ encounter_found = TRUE
    /\ \E up \in Trees, ew \in [Node -> PruneRules], ans \in [Node -> {"-", "a", "b"}] :
          LET groups == {up[q] : q \in Node} \ {0}
              answered == SeqOfSet({q \in Node : ans[q] # "-"})
          IN /\ Cardinality({q \in Node : ew[q] # <<>>}) <= MaxCond
             /\ \A q \in groups : ans[q] = "-"
             /\ def = [q \in Node |->
                         [Q0(q) EXCEPT !.type = IF q \in groups THEN "group" ELSE "string",
                                       !.code = q \notin groups,
                                       !.has_enable_when = ew[q] # <<>>,
                                       !.enable_when = ew[q]]]
             /\ questions = ChildrenOf(up, 0)
             /\ sub = [q \in Node |-> ChildrenOf(up, q)]
             /\ results = [i \in 1..Len(answered) |->
                             Answer(answered[i], <<Val(ans[answered[i]])>>)]
    /\ Fresh

SpecPrune == InitPrune /\ [][Next]_vars

\* ------------------------------------------------------------------ the tree, for the properties
RECURSIVE Reach(_, _)
\* The questions of the tree below the list qs, in the children lists s.
Reach(qs, s) ==
    IF qs = <<>> THEN {}
    ELSE {Head(qs)} \cup Reach(s[Head(qs)], s) \cup Reach(Tail(qs), s)

\* The questions of the questionnaire as loaded, and of the pruned tree.
LoadedQuestions == Reach(loaded.questions, loaded.sub)
PrunedQuestions == Reach(questions, sub)
\* The descendants of question g in the questionnaire as loaded.
Descendants(g) == Reach(loaded.sub[g], loaded.sub)
\* The ids answered by an entry of the raw result list.
ResultIds(rs) == {rs[i].question_id : i \in 1..Len(rs)}
\* Question q has left the pruned tree, the response map and the raw result list.
Gone(q) ==
    /\ q \notin PrunedQuestions
    /\ q \notin DOMAIN responses
    /\ q \notin ResultIds(results)
\* The pruning stage has run (and nothing after it has failed before it).
AfterPruning == pc \in {"Pruned", "Validated", "Rejected", "BuiltObservations", "Persisted"}

\* ------------------------------------------------------------------ C1
\* The enable_when of q evaluates false against the final response map.
FalseOnFinalMap(q) ==
    /\ def[q].has_enable_when
    /\ ~is_question_enabled(q, responses, loaded.questions, loaded.sub)

\* C1: pruning is complete: once the pruning stage has finished, no question
\* whose enable_when evaluates false against the final response map, and no
\* descendant of such a question, is in the pruned tree, in the response map
\* or in the raw result list.
C1_PruningComplete ==
    AfterPruning =>
        \A q \in LoadedQuestions :
            FalseOnFinalMap(q) => Gone(q) /\ \A d \in Descendants(q) : Gone(d)

\* ------------------------------------------------------------------ C2
\* C2: pruning is idempotent: the pruning stage run a second time on its own
\* output leaves the pruned tree, the response map and the raw result list
\* as they were after the first run.
C2_PruningIdempotent ==
    pc = "Pruned" =>
        LET again == PruneStage(questions, sub, responses, results)
        IN /\ again.questions = questions
           /\ again.sub = sub
           /\ again.responses = responses
           /\ again.results = results

\* ------------------------------------------------------------------ C3
\* C3: disablement is inherited downward: a group the pruner found disabled
\* is absent from the pruned tree, and no descendant of it at any depth has
\* an entry in the response map or in the raw result list.
C3_DisabledGroupTakesDescendants ==
    AfterPruning =>
        \A g \in disabled :
            def[g].type = "group" =>
                /\ g \notin PrunedQuestions
                /\ \A d \in Descendants(g) : Gone(d)

\* A disabled group with a nested group below it whose child was answered
\* and carries an enable_when of its own that holds on the submitted answers.
C3_Witness ==
    /\ pc = "Pruned"
    /\ \E g \in disabled, h \in Node, d \in Node :
          /\ def[g].type = "group" /\ def[h].type = "group"
          /\ h \in Descendants(g)
          /\ d \in Descendants(h)
          /\ d \in ResultIds(submitted)
          /\ def[d].has_enable_when
          /\ is_question_enabled(d, create_responses_mapping(submitted),
                                 loaded.questions, loaded.sub)

\* ------------------------------------------------------------------ C4
\* Question q was removed by pruning: found disabled, or below a disabled group.
Removed(q) == q \in disabled \/ \E g \in disabled : q \in Descendants(g)

\* Question b has a rule with one of the operators that references question a.
DependsOn(b, a) ==
    \E i \in 1..Len(def[b].enable_when) :
        /\ def[b].enable_when[i].question = def[a].link_id
        /\ def[b].enable_when[i].operator \in
              {"exists", "equals", "greater", "less", "greater_or_equals", "less_or_equals"}

\* C4: disablement propagates along dependency chains: if a rule of B
\* references A and A is disabled by pruning, B is disabled as well and
\* neither answer is stored, whatever the order of A and B in the tree.
C4_DisablementPropagates ==
    AfterPruning =>
        \A a \in LoadedQuestions, b \in LoadedQuestions :
            (Len(def[b].enable_when) = 1 /\ DependsOn(b, a) /\ Removed(a)) => Gone(a) /\ Gone(b)

\* ------------------------------------------------------------------ inputs: enablement
Operators ==
    {"exists", "equals", "not_equals", "greater", "less", "greater_or_equals",
     "less_or_equals"}

RECURSIVE SeqsUpTo(_, _)
\* The sequences over S of length at most n.
SeqsUpTo(S, n) ==
    IF n = 0 THEN {<<>>}
    ELSE LET shorter == SeqsUpTo(S, n - 1)
         IN shorter \cup {Append(s, x) : s \in shorter, x \in S}

\* A flat questionnaire 1..MaxQ in which question 2 carries enable_when ew
\* with enable_behavior beh; question 1 is answered with the values rvals
\* (or not at all) and question 2 with "7".
FlatInput(has, ew, beh, ranswered, rvals) ==
    /\ status = "active"
    /\ subject_type = "patient"
    /\ patient_found = TRUE
    /\ encounter_found = FALSE
    /\ def = [q \in Node |->
                IF q = 2
                THEN [Q0(q) EXCEPT !.has_enable_when = has, !.enable_when = ew,
                                   !.enable_behavior = beh]
                ELSE Q0(q)]
    /\ questions = SeqOfSet(Node)
    /\ sub = [q \in Node |-> <<>>]
    /\ results = (IF ranswered THEN <<Answer(1, rvals)>> ELSE <<>>) \o <<Answer(2, <<Val("7")>>)>>
    /\ Fresh

\* One rule on question 2 that references question 1: every operator, a
\* string, a number or null as the answer, and every list of at most MaxVals
\* values (or no answer) for question 1.
InitOperators ==
    \E op \in Operators, ans \in {Str("5"), Str("abc"), Num(5), None},
       ranswered \in BOOLEAN,
       rvals \in SeqsUpTo({[value |-> v, unit |-> FALSE, coding |-> "none"] :
                              v \in {None, Str("5"), Str("5.0"), Str("10"), Str("abc")}},
                          MaxVals) :
        /\ ranswered \/ rvals = <<>>
        /\ FlatInput(TRUE, <<[question |-> LinkOf(1), operator |-> op, answer |-> ans]>>,
                     "absent", ranswered, rvals)

\* At most MaxRules rules on question 2, each on question 1, with every
\* enable_behavior: the key absent, null, "all" or "any".
InitCombine ==
    \E ew \in SeqsUpTo({[question |-> LinkOf(1), operator |-> "equals", answer |-> Str("5")],
                        [question |-> LinkOf(1), operator |-> "exists", answer |-> None],
                        [question |-> LinkOf(1), operator |-> "greater", answer |-> Str("5")]},
                       MaxRules),
       has \in BOOLEAN, beh \in {"absent", "null", "all", "any"},
       r \in {"-", "3", "5", "10"} :
        /\ has \/ ew = <<>>
        /\ FlatInput(has, ew, beh, r # "-", IF r = "-" THEN <<>> ELSE <<Val(r)>>)

SpecEnable == (InitOperators \/ InitCombine) /\ [][Next]_vars

\* ------------------------------------------------------------------ C5
\* The first submitted value of question q, null when q was not answered or
\* was answered with no values.
FirstSubmitted(q) ==
    IF \E i \in 1..Len(submitted) :
          submitted[i].question_id = q /\ submitted[i].values # <<>>
    THEN LET i == CHOOSE i \in 1..Len(submitted) :
                     submitted[i].question_id = q /\ submitted[i].values # <<>>
         IN submitted[i].values[1].value
    ELSE None

\* What the specification says one rule yields on the left-hand side lhs.
RuleMeaning(c, lhs) ==
    LET a == ToFloat(lhs)
        b == ToFloat(c.answer)
    IN CASE c.operator = "exists" -> lhs # None
         [] c.operator = "equals" -> lhs = c.answer
         [] c.operator = "not_equals" -> lhs # c.answer
         [] c.operator = "greater" -> a.ok /\ b.ok /\ a.val > b.val
         [] c.operator = "less" -> a.ok /\ b.ok /\ a.val < b.val
         [] c.operator = "greater_or_equals" -> a.ok /\ b.ok /\ a.val >= b.val
         [] c.operator = "less_or_equals" -> a.ok /\ b.ok /\ a.val <= b.val

\* Question 2 carries exactly one rule, on question 1, combined by default.
SingleRuleCase == Len(def[2].enable_when) = 1 /\ def[2].enable_behavior = "absent"

\* The ids of the stored response.
StoredIds == ResultIds(stored_response[1])

RuleMeanings(q) ==
    [i \in 1..Len(def[q].enable_when) |->
        RuleMeaning(def[q].enable_when[i], FirstSubmitted(1))]

\* C6: several rules combine by conjunction when enable_behavior is "all",
\* absent or null, and by disjunction when it is "any"; a question with an
\* empty or absent enable_when is always enabled.
C6_RuleCombination ==
    (AfterPruning /\ \A i \in 1..Len(def[2].enable_when) :
                        def[2].enable_when[i].question = LinkOf(1)) =>
        LET r == RuleMeanings(2)
        IN 2 \in PrunedQuestions <=>
              IF def[2].enable_when = <<>> THEN TRUE
              ELSE IF def[2].enable_behavior = "any" THEN \E i \in DOMAIN r : r[i]
              ELSE \A i \in DOMAIN r : r[i]

\* ------------------------------------------------------------------ inputs: validation
RECURSIVE AnswersOfList(_, _, _)
RECURSIVE AnswersOf(_, _, _)
\* The raw result lists that answer the questions of the list qs in one
\* scope (the top level, or one repetition of a repeating group): a leaf is
\* answered with one of the value lists vals[q] or not at all, the children
\* of a plain group are answered in the scope of the group, and a repeating
\* group is not answered or answered with at most MaxReps repetitions.
AnswersOfList(qs, s, vals) ==
    IF qs = <<>> THEN {<<>>}
    ELSE {a \o b : a \in AnswersOf(Head(qs), s, vals), b \in AnswersOfList(Tail(qs), s, vals)}

AnswersOf(q, s, vals) ==
    IF def[q].type # "group" THEN {<<>>} \cup {<<Answer(q, v)>> : v \in vals[q]}
    ELSE IF ~def[q].repeats THEN AnswersOfList(s[q], s, vals)
    ELSE {<<>>} \cup
         {<<[Answer(q, <<>>) EXCEPT !.sub_results = reps]>> :
              reps \in SeqsUpTo(AnswersOfList(s[q], s, vals), MaxReps)}

\* Integer leaves in every tree: any questions required, any groups
\* repeating; a leaf is not answered, answered with no values, with a valid
\* or with an invalid value.
InitRequired ==
    /\ status = "active"
    /\ subject_type = "encounter"
    /\ patient_found = TRUE
    /\ encounter_found = TRUE
    /\ \E up \in Trees, required \in SUBSET Node, repeating \in SUBSET Node :
          LET groups == {up[q] : q \in Node} \ {0}
          IN /\ repeating \subseteq groups
             /\ def = [q \in Node |->
                         [Q0(q) EXCEPT !.type = IF q \in groups THEN "group" ELSE "integer",
                                       !.code = q \notin groups,
                                       !.required = q \in required,
                                       !.repeats = q \in repeating]]
             /\ questions = ChildrenOf(up, 0)
             /\ sub = [q \in Node |-> ChildrenOf(up, q)]
    /\ results \in AnswersOfList(questions, sub,
                                 [q \in Node |-> {<<>>, <<Val("7")>>, <<Val("12.34")>>}])
    /\ Fresh

\* A submitted value with a coding and a unit.
Coded(v, coding, unit) == [value |-> v, unit |-> unit, coding |-> coding]

\* The question types of the model with the values submitted for each.
\* kind names the case, type is the type key of the question.
TypeCases ==
    {[kind |-> "integer", type |-> "integer", values |-> {Val("7"), Val("12.34")}],
     [kind |-> "decimal", type |-> "decimal", values |-> {Val("12.34"), Val("abc")}],
     [kind |-> "boolean", type |-> "boolean", values |-> {Val("True"), Val("abc")}],
     [kind |-> "date", type |-> "date", values |-> {Val("2023-12-31"), Val("abc")}],
     [kind |-> "dateTime", type |-> "dateTime",
      values |-> {Val("2023-12-31T15:30:00"), Val("abc")}],
     [kind |-> "time", type |-> "time", values |-> {Val("15:30:00"), Val("abc")}],
     [kind |-> "url", type |-> "url", values |-> {Val("http://example.com"), Val("abc")}],
     [kind |-> "text", type |-> "text", values |-> {Val("abc"), Val("LONG")}],
     [kind |-> "string", type |-> "string", values |-> {Val("abc"), Coded(None, "none", FALSE)}],
     [kind |-> "structured", type |-> "structured", values |-> {Val("abc")}],
     [kind |-> "choice_options", type |-> "choice", values |-> {Val("GOOD"), Val("abc")}],
     [kind |-> "choice_valueset", type |-> "choice",
      values |-> {Coded(None, "in", FALSE), Coded(None, "out", FALSE),
                  Coded(None, "none", FALSE), Coded(Str("abc"), "in", FALSE)}],
     [kind |-> "quantity_options", type |-> "quantity",
      values |-> {Coded(Str("7"), "none", TRUE), Coded(Str("7"), "none", FALSE)}],
     [kind |-> "quantity_valueset", type |-> "quantity",
      values |-> {Coded(Str("7"), "in", TRUE), Coded(Str("7"), "out", TRUE),
                  Coded(Str("7"), "in", FALSE)}]}

\* A flat questionnaire whose question 1 is of any type, required or not,
\* repeating or not, answered with at most MaxVals values or not answered;
\* question 2 is a string answered "abc".
InitTypes ==
    /\ status = "active"
    /\ subject_type = "encounter"
    /\ patient_found = TRUE
    /\ encounter_found = TRUE
    /\ questions = SeqOfSet(Node)
    /\ sub = [q \in Node |-> <<>>]
    /\ \E c \in TypeCases, req \in BOOLEAN, rep \in BOOLEAN, answered \in BOOLEAN :
          /\ def = [q \in Node |->
                      IF q = 1
                      THEN [Q0(q) EXCEPT
                              !.type = c.type, !.required = req, !.repeats = rep,
                              !.answer_option =
                                  IF c.kind \in {"choice_options", "quantity_options"}
                                  THEN {"GOOD", "FAIR"} ELSE {},
                              !.answer_value_set =
                                  IF c.kind \in {"choice_valueset", "quantity_valueset"}
                                  THEN "vs" ELSE "absent",
                              !.unit = c.type = "quantity"]
                      ELSE Q0(q)]
          /\ \E vals \in SeqsUpTo(c.values, MaxVals) :
                /\ answered \/ vals = <<>>
                /\ results = (IF answered THEN <<Answer(1, vals)>> ELSE <<>>)
                             \o <<Answer(2, <<Val("abc")>>)>>
    /\ Fresh

SpecValidate == (InitRequired \/ InitTypes) /\ [][Next]_vars

\* ------------------------------------------------------------------ the answers, for the properties
RECURSIVE Visits(_, _, _, _, _)
RECURSIVE VisitsOfRepetitions(_, _, _, _, _)
\* The occurrences of the leaves of the list qs in one scope of the
\* submission, in document order: one per leaf of a plain group, and one per
\* leaf and repetition of a repeating group that has repetitions.  inherited
\* says that an ancestor group of the leaf has required = true.
Visits(qs, i, resp, inherited, s) ==
    IF i > Len(qs) THEN <<>>
    ELSE LET q == qs[i]
             below == inherited \/ def[q].required
             here ==
                CASE def[q].type = "structured" -> <<>>
                  [] def[q].type = "group" ->
                        IF ~def[q].repeats THEN Visits(s[q], 1, resp, below, s)
                        ELSE IF q \notin DOMAIN resp THEN <<>>
                        ELSE VisitsOfRepetitions(q, resp[q].sub_results, 1, below, s)
                  [] OTHER ->
                        <<[question |-> q, answered |-> q \in DOMAIN resp,
                           values |-> IF q \in DOMAIN resp THEN resp[q].values ELSE <<>>,
                           inherited |-> inherited]>>
         IN here \o Visits(qs, i + 1, resp, inherited, s)

VisitsOfRepetitions(g, reps, i, inherited, s) ==
    IF i > Len(reps) THEN <<>>
    ELSE Visits(s[g], 1, create_responses_mapping(reps[i]), inherited, s)
         \o VisitsOfRepetitions(g, reps, i + 1, inherited, s)

\* The occurrences of the leaves of the pruned tree in the pruned submission.
LeafVisits == Visits(questions, 1, responses, FALSE, sub)
VisitsOf(q) == SelectSeq(LeafVisits, LAMBDA v : v.question = q)
ErrorsOf(q) == SelectSeq(errors, LAMBDA e : e.question_id = q)
Count(seq, Test(_)) == Len(SelectSeq(seq, Test))

NotAnsweredVisit(v) == ~v.answered
EmptyVisit(v) == v.answered /\ v.values = <<>>
\* An occurrence with a considered value that is invalid for the type.
InvalidVisit(v) ==
    /\ v.answered
    /\ validate_data(ConsideredValues(v.question, v.values),
                     def[v.question].type, v.question) # <<>>
\* An occurrence with a value, whose considered values are all valid for
\* the type and carry the coding and the unit the type asks for.
SoundVisit(v) ==
    LET q == v.question
        values == ConsideredValues(q, v.values)
    IN /\ v.answered
       /\ v.values # <<>>
       /\ ~InvalidVisit(v)
       /\ def[q].type = "choice" /\ def[q].answer_value_set # "absent" =>
             \A i \in 1..Len(values) : validate_valueset(values[i].coding) = "ok"
       /\ def[q].type = "quantity" =>
             \A i \in 1..Len(values) :
                /\ values[i].unit
                /\ def[q].answer_value_set # "absent" =>
                      validate_valueset(values[i].coding) = "ok"

\* Validation ran to its end: it returned, with or without errors.
ValidationReturned == pc \in {"Rejected", "Validated", "BuiltObservations", "Persisted"}
                      \/ (pc = "Failed" /\ raised = "StorageError")
\* Validation was entered: it returned or an exception left it.
ValidationEntered == ValidationReturned \/ (pc = "Failed" /\ raised = "RecursionError")
NothingStored == stored_response = <<>> /\ stored_obs = <<>>

\* ------------------------------------------------------------------ C7
\* The errors a leaf with required = true set directly gets for occurrences
\* that are not answered or answered with no value.
AsRequiredDirectly(q) ==
    [i \in 1..Len(VisitsOf(q)) |->
        IF VisitsOf(q)[i].answered THEN ValuesMissing(q) ELSE NotAnswered(q)]

UnansweredOrEmpty(q) ==
    /\ VisitsOf(q) # <<>>
    /\ \A i \in 1..Len(VisitsOf(q)) :
          NotAnsweredVisit(VisitsOf(q)[i]) \/ EmptyVisit(VisitsOf(q)[i])

\* C7: a leaf with required unset below a group with required = true gets
\* the errors of the same leaf with required = true, when it is missing from
\* the response and when it is answered with no values.
C7_RequiredInherited ==
    ValidationReturned =>
       \A q \in Node :
          (/\ ~def[q].required
           /\ UnansweredOrEmpty(q)
           /\ \A i \in 1..Len(VisitsOf(q)) : VisitsOf(q)[i].inherited)
          => ErrorsOf(q) = AsRequiredDirectly(q)

\* ------------------------------------------------------------------ C8
IsValuesMissing(e) == "type" \in DOMAIN e /\ e.type = "values_missing"

\* C8: a required leaf answered with no values gets exactly one
\* values_missing error and no other, the submission is rejected and
\* nothing is stored; a leaf required neither directly nor through an
\* ancestor gets no error for the same answer.
C8_RequiredEmpty ==
    ValidationEntered =>
       \A q \in Node :
          LET empties == Count(VisitsOf(q), EmptyVisit)
          IN /\ (def[q].required /\ empties > 0) =>
                   /\ Count(ErrorsOf(q), IsValuesMissing) = empties
                   /\ (empties = Len(VisitsOf(q)) => Len(ErrorsOf(q)) = empties)
                   /\ pc = "Rejected"
                   /\ NothingStored
             /\ (/\ ~def[q].required
                 /\ empties > 0
                 /\ \A i \in 1..Len(VisitsOf(q)) : ~VisitsOf(q)[i].inherited) =>
                   /\ raised # "RecursionError"
                   /\ Count(ErrorsOf(q), IsValuesMissing) = 0
                   /\ (empties = Len(VisitsOf(q)) => ErrorsOf(q) = <<>>)

\* ------------------------------------------------------------------ C9
IsTypeError(e) == "type" \in DOMAIN e /\ e.type = "type_error"

ErrorTypes == {"type_error", "values_missing", "valueset_error"}

\* C10: every entry of the error list of a rejected submission has a type
\* among type_error, values_missing and valueset_error, the id of the
\* question and a message.
C10_ErrorShape ==
    pc = "Rejected" =>
       \A i \in 1..Len(errors) :
          /\ {"type", "question_id", "msg"} \subseteq DOMAIN errors[i]
          /\ errors[i].type \in ErrorTypes
          /\ errors[i].question_id \in Node

\* ------------------------------------------------------------------ C11
\* C11: validation returns normally on every pruned tree and every response
\* tree: no exception leaves validate_question_result, so the parent chain
\* check_required follows ends after finitely many steps.
C11_ValidationTerminates ==
    /\ raised # "RecursionError"
    /\ pc = "Pruned" =>
          ValidateStage(questions, sub, responses).raised = "none"

\* ------------------------------------------------------------------ C12
\* The stage handle_response has completed, and what each step may write.
StageStep ==
    /\ pc' # pc =>
          \/ pc = "Received" /\ pc' \in {"Pruned", "Failed"}
          \/ pc = "Pruned" /\ pc' \in {"Validated", "Rejected", "Failed"}
          \/ pc = "Validated" /\ pc' = "BuiltObservations"
          \/ pc = "BuiltObservations" /\ pc' \in {"Persisted", "Failed"}
    /\ << questions, sub, responses, results >> # << questions', sub', responses', results' >>
          => pc = "Received"
    /\ errors' # errors => pc = "Pruned"
    /\ pc' = "Rejected" => errors' # <<>>
    /\ pc' = "Validated" => errors' = <<>>
    /\ observations' # observations => pc = "Validated" /\ errors = <<>>
    /\ << stored_response, stored_obs >> # << stored_response', stored_obs' >>
          => pc = "BuiltObservations" /\ errors = <<>>

\* C12: handle_response passes through Received, Pruned, Validated,
\* BuiltObservations, Persisted in that order, no stage skipped, repeated or
\* resumed: the tree and the answers are written only by pruning, the error
\* list only by validation, observations are built only after validation
\* with an empty error list, storage is called only after that; Rejected is
\* entered only at the end of validation with a non-empty error list, and
\* in Rejected nothing is built or stored.
C12_StageOrder ==
    /\ [][StageStep]_vars
    /\ [](pc = "Rejected" => errors # <<>> /\ observations = <<>> /\ NothingStored)

\* A submission with errors on two questions ends in Rejected with nothing stored.
C12_Witness ==
    /\ pc = "Rejected"
    /\ \E q \in Node, r \in Node : q # r /\ ErrorsOf(q) # <<>> /\ ErrorsOf(r) # <<>>
    /\ NothingStored

\* ------------------------------------------------------------------ C13
\* handle_response has returned or raised.
Terminal == pc \in {"Persisted", "Rejected", "Failed"}

\* C13: persistence is all-or-nothing: in every terminal state the response
\* record and every built observation are stored, or nothing is; after a
\* precondition failure, a validation failure or an error raised while
\* storing, no response record and no observation is stored.
C13_AllOrNothing ==
    /\ Terminal => \/ NothingStored
                   \/ stored_response # NoRow /\ stored_obs = observations
    /\ pc \in {"Rejected", "Failed"} => NothingStored

\* ------------------------------------------------------------------ C14
\* C14: on every successful submission, for a patient and for an encounter
\* questionnaire, every observation built is stored with the response
\* record: as many observations are stored as were built.
C14_ObservationsStored ==
    pc = "Persisted" =>
        /\ stored_response # NoRow
        /\ Len(stored_obs) = Len(observations)
        /\ stored_obs = observations

\* ------------------------------------------------------------------ inputs: preconditions
\* The id of a submitted result that is the id of no question.
UnknownId == 0

\* A flat questionnaire of strings with any status and subject type, a
\* patient and an encounter that resolve or not; question 2 may depend on
\* question 1 and a later question on question 2; a question is not
\* answered, answered with no values or with a value, and the submission may
\* carry a result for an unknown question id.
InitSubmit ==
    /\ status \in {"active", "draft"}
    /\ subject_type \in {"patient", "encounter"}
    /\ patient_found \in BOOLEAN
    /\ encounter_found \in BOOLEAN
    /\ \E ew2 \in {<<>>, <<[question |-> LinkOf(1), operator |-> "exists", answer |-> None]>>,
                   <<[question |-> LinkOf(1), operator |-> "equals", answer |-> Str("5")]>>},
          chained \in BOOLEAN :
          def = [q \in Node |->
                   IF q = 2 THEN [Q0(q) EXCEPT !.has_enable_when = ew2 # <<>>, !.enable_when = ew2]
                   ELSE IF q > 2 /\ chained
                   THEN [Q0(q) EXCEPT
                           !.has_enable_when = TRUE,
                           !.enable_when = <<[question |-> LinkOf(2), operator |-> "exists",
                                              answer |-> None]>>]
                   ELSE Q0(q)]
    /\ questions = SeqOfSet(Node)
    /\ sub = [q \in Node |-> <<>>]
    /\ \E ans \in [Node -> {"-", "empty", "5", "abc"}], unknown \in BOOLEAN :
          LET answered == SeqOfSet({q \in Node : ans[q] # "-"})
          IN /\ \A q \in Node : q > 2 => ans[q] \in {"-", "5"}
             /\ results = [i \in 1..Len(answered) |->
                             Answer(answered[i],
                                    IF ans[answered[i]] = "empty" THEN <<>>
                                    ELSE <<Val(ans[answered[i]])>>)]
                          \o (IF unknown THEN <<Answer(UnknownId, <<Val("")>>)>> ELSE <<>>)
    /\ Fresh

SpecSubmit == InitSubmit /\ [][Next]_vars

\* ------------------------------------------------------------------ C15
\* Nothing of the submission or of the questionnaire was written, and
\* nothing was stored.
Untouched ==
    /\ results = submitted
    /\ questions = loaded.questions
    /\ sub = loaded.sub
    /\ responses = EmptyMap
    /\ observations = <<>>
    /\ NothingStored

\* handle_response has left the stage Received.
Started == pc # "Received"

\* C15: preconditions come first: a questionnaire that is not active fails
\* with questionnaire_inactive whatever the payload; otherwise an encounter
\* that does not resolve (needed unless the subject type is patient) or a
\* patient that does not resolve fails with object_not_found; in each case
\* the results, the questionnaire and the store are as before the call.
C15_PreconditionsFirst ==
    Started =>
        /\ status # "active" =>
              pc = "Failed" /\ raised = "questionnaire_inactive" /\ Untouched
        /\ (status = "active" /\ subject_type # "patient" /\ ~encounter_found) =>
              pc = "Failed" /\ raised = "object_not_found:encounter" /\ Untouched
        /\ (status = "active" /\ (subject_type = "patient" \/ encounter_found)
            /\ ~patient_found) =>
              pc = "Failed" /\ raised = "object_not_found:patient" /\ Untouched
        /\ (status = "active" /\ (subject_type = "patient" \/ encounter_found)
            /\ patient_found) =>
              raised \notin {"questionnaire_inactive", "object_not_found:encounter",
                             "object_not_found:patient"}

\* An inactive questionnaire submitted with an unresolvable patient, a
\* result for an unknown question and an answer pruning would remove.
C15_Witness ==
    /\ pc = "Failed"
    /\ raised = "questionnaire_inactive"
    /\ ~patient_found
    /\ UnknownId \in ResultIds(results)
    /\ 2 \in ResultIds(results) /\ 1 \notin ResultIds(results)
    /\ def[2].has_enable_when

\* ------------------------------------------------------------------ C16
\* The questionnaire is active and the subject resolves.
PreconditionsHold ==
    /\ status = "active"
    /\ subject_type = "patient" \/ encounter_found
    /\ patient_found

\* C16 (as amended): handle_response fails with questionnaire_empty exactly
\* when the questionnaire is active, the subject resolves and the submitted
\* results list is empty; the test is made before pruning, so a non-empty
\* submission whose answers are all removed by pruning passes it, and when
\* it is stored the stored responses list is empty.
C16_EmptyBeforePruning ==
    Started =>
        /\ raised = "questionnaire_empty" <=> (PreconditionsHold /\ submitted = <<>>)
        /\ (PreconditionsHold /\ submitted # <<>> /\ results = <<>>) =>
              /\ pc \notin {"Failed", "Rejected"} \/ raised = "StorageError"
              /\ pc = "Persisted" => stored_response = <<results>>

\* C16 as stated: questionnaire_empty exactly when the submitted results
\* list is empty.
C16_AsStated ==
    Started => (raised = "questionnaire_empty" <=> submitted = <<>>)

\* A submission of one answer that pruning removed, stored with no responses.
C16_Witness ==
    /\ pc = "Persisted"
    /\ Len(submitted) = 1
    /\ submitted[1].question_id = 2
    /\ stored_response = << <<>> >>

\* ------------------------------------------------------------------ inputs: groups
\* The ways one integer leaf is answered in one scope: not at all, with no
\* values, with a valid value (with or without a note), with an invalid one.
LeafAnswers(q) ==
    {<<>>, <<Answer(q, <<>>)>>, <<Answer(q, <<Val("7")>>)>>, <<Answer(q, <<Val("12.34")>>)>>,
     <<[Answer(q, <<Val("5")>>) EXCEPT !.note = "seen"] >>}

RECURSIVE ScopeAnswers(_)
\* The result lists that answer the leaves of the list qs in one scope.
ScopeAnswers(qs) ==
    IF qs = <<>> THEN {<<>>}
    ELSE {a \o b : a \in LeafAnswers(Head(qs)), b \in ScopeAnswers(Tail(qs))}

\* One top-level group, question 1, over the integer leaves 2..MaxQ: the
\* group is a component carrier or not, repeating or not, required or not,
\* every leaf coded or not.  A repeating group is not answered or answered
\* with at most MaxReps repetitions; the leaves of a plain group are
\* answered at the top level.
InitGroups ==
    /\ status = "active"
    /\ subject_type = "encounter"
    /\ patient_found = TRUE
    /\ encounter_found = TRUE
    /\ questions = <<1>>
    /\ sub = [q \in Node |-> IF q = 1 THEN SeqOfSet(Node \ {1}) ELSE <<>>]
    /\ \E carrier \in BOOLEAN, repeating \in BOOLEAN, required \in BOOLEAN,
          coded \in SUBSET (Node \ {1}) :
          def = [q \in Node |->
                   IF q = 1
                   THEN [Q0(q) EXCEPT !.type = "group", !.is_component = carrier,
                                      !.repeats = repeating, !.required = required]
                   ELSE [Q0(q) EXCEPT !.type = "integer", !.code = q \in coded]]
    /\ IF def[1].repeats
       THEN results \in {<<>>} \cup
                        {<<[Answer(1, <<>>) EXCEPT !.sub_results = reps]>> :
                             reps \in SeqsUpTo(ScopeAnswers(sub[1]), MaxReps)}
       ELSE results \in ScopeAnswers(sub[1])
    /\ Fresh

SpecGroups == InitGroups /\ [][Next]_vars

\* ------------------------------------------------------------------ C17
\* The repetitions submitted for the top-level group 1.
Repetitions == IF 1 \in DOMAIN responses THEN responses[1].sub_results ELSE <<>>

\* The response map of the same submission with the one repetition rep.
AloneWith(rep) == (1 :> [responses[1] EXCEPT !.sub_results = <<rep>>])

\* An observation spec without the uuid4 drawn for it.
WithoutUuid(o) == [o EXCEPT !.id = 0]
WithoutUuids(obs) == [i \in 1..Len(obs) |-> WithoutUuid(obs[i])]

RECURSIVE ErrorsOneByOne(_, _)
\* The errors of the repetitions from the i-th on, each validated alone.
ErrorsOneByOne(reps, i) ==
    IF i > Len(reps) THEN <<>>
    ELSE ValidateStage(questions, sub, AloneWith(reps[i])).errors \o ErrorsOneByOne(reps, i + 1)

RECURSIVE ObservationsOneByOne(_, _)
\* The observations of the repetitions from the i-th on, each built alone.
ObservationsOneByOne(reps, i) ==
    IF i > Len(reps) THEN <<>>
    ELSE WithoutUuids(BuildStage(questions, sub, AloneWith(reps[i])))
         \o ObservationsOneByOne(reps, i + 1)

\* Some repetition, validated alone, has an error.
SomeRepetitionInError ==
    \E i \in 1..Len(Repetitions) :
        ValidateStage(questions, sub, AloneWith(Repetitions[i])).errors # <<>>

\* C17: repeat isolation: the errors and the observation of a repetition
\* depend on its own answers only, so the submission yields, in order, what
\* each repetition yields when it is submitted alone, whatever the other
\* repetitions hold; an error in one repetition aborts persistence of the
\* whole submission.
C17_RepeatIsolation ==
    (def[1].repeats /\ Len(Repetitions) >= 2) =>
        /\ pc = "Pruned" =>
              LET full == ValidateStage(questions, sub, responses)
              IN /\ (\E i \in 1..Len(Repetitions) :
                        ValidateStage(questions, sub, AloneWith(Repetitions[i])).raised = "none")
                    => full.raised = "none"
                 /\ full.errors = ErrorsOneByOne(Repetitions, 1)
                 /\ WithoutUuids(BuildStage(questions, sub, responses))
                       = ObservationsOneByOne(Repetitions, 1)
        /\ (ValidationEntered /\ SomeRepetitionInError) =>
              pc \in {"Rejected", "Failed"} /\ NothingStored

\* ------------------------------------------------------------------ C18
\* Observation building has run.
Built == pc \in {"BuiltObservations", "Persisted"} \/ (pc = "Failed" /\ raised = "StorageError")

RECURSIVE AnsweredCoded(_, _, _)
\* The component entries of the coded children, from the i-th on, of the
\* list qs that have a value in the scope resp: code, submitted value, note.
AnsweredCoded(qs, i, resp) ==
    IF i > Len(qs) THEN <<>>
    ELSE LET c == qs[i]
             here == IF def[c].code /\ c \in DOMAIN resp /\ resp[c].values # <<>>
                     THEN <<[code |-> c, note |-> resp[c].note,
                             value |-> [kind |-> "value", value |-> resp[c].values[1].value,
                                        coding |-> "none", unit |-> FALSE]]>>
                     ELSE <<>>
         IN here \o AnsweredCoded(qs, i + 1, resp)

\* C18: a group with is_component and repeats submitted with k repetitions
\* (k >= 0) yields exactly k observations for the group, in repetition
\* order, each with the code of the group and the components of the
\* answered coded children of its repetition.
C18_CarrierPerRepetition ==
    (Built /\ def[1].is_component /\ def[1].repeats) =>
        /\ Len(observations) = Len(Repetitions)
        /\ \A i \in 1..Len(observations) :
              /\ observations[i].question = 1
              /\ observations[i].main_code = 1
              /\ i <= Len(Repetitions) =>
                    observations[i].component =
                       AnsweredCoded(sub[1], 1, create_responses_mapping(Repetitions[i]))

\* ------------------------------------------------------------------ C19
\* Group 1 is a plain component carrier whose children are all coded and
\* all answered with one value.
CarrierFullyAnswered ==
    /\ def[1].is_component /\ ~def[1].repeats
    /\ \A i \in 1..Len(sub[1]) :
          /\ def[sub[1][i]].code
          /\ sub[1][i] \in DOMAIN responses
          /\ Len(responses[sub[1][i]].values) = 1

\* C19: a plain component-carrier group with N coded leaf children, each
\* answered with one value, yields exactly one observation, for the group,
\* whose component list has N entries in child order, entry i with the code,
\* the submitted value and the note of child i; the children yield no
\* observation of their own.
C19_ComponentRoundTrip ==
    (Built /\ CarrierFullyAnswered) =>
        /\ Len(observations) = 1
        /\ observations[1].question = 1
        /\ Len(observations[1].component) = Len(sub[1])
        /\ \A i \in 1..Len(sub[1]) :
              LET c == sub[1][i]
                  e == observations[1].component[i]
              IN /\ e.code = c
                 /\ e.value.value = responses[c].values[1].value
                 /\ e.note = responses[c].note
        /\ \A i \in 1..Len(observations) : observations[i].question \notin Reach(sub[1], sub)

\* A stored carrier observation with a component per child, one with a note.
C19_Witness ==
    /\ pc = "Persisted"
    /\ CarrierFullyAnswered
    /\ Len(sub[1]) >= 2
    /\ \E i \in 1..Len(sub[1]) : responses[sub[1][i]].note # ""
    /\ \E i \in 1..Len(sub[1]) : responses[sub[1][i]].note = ""
    /\ Len(stored_obs) = 1

\* ------------------------------------------------------------------ C20
\* C20: the questionnaire definition is read-only input: on every path of
\* handle_response the questions list of the questionnaire, the questions
\* list of every group and the keys of every question dict are as they were
\* when the questionnaire was loaded.
C20_DefinitionReadOnly ==
    /\ questions = loaded.questions
    /\ sub = loaded.sub
    /\ \A q \in Node : parent_key[q] = -1

\* ------------------------------------------------------------------ C21
\* An occurrence whose values list has a first entry that is valid for the
\* type and carries the coding and the unit the type asks for.
FirstEntrySound(v) ==
    /\ v.values # <<>>
    /\ SoundVisit([v EXCEPT !.values = <<v.values[1]>>])

\* C21: for a leaf whose repeats flag is false or unset validation considers
\* only the first entry of the values list: when the first entry of every
\* occurrence is valid the leaf gets no error, whatever the later entries
\* hold.
C21_FirstValueOnly ==
    ValidationReturned =>
       \A q \in Node :
          (/\ ~def[q].repeats
           /\ VisitsOf(q) # <<>>
           /\ \A i \in 1..Len(VisitsOf(q)) : FirstEntrySound(VisitsOf(q)[i]))
          => ErrorsOf(q) = <<>>

\* ------------------------------------------------------------------ C22
\* The observations built for question q, in the order of the list.
ObsOf(q) == SelectSeq(observations, LAMBDA o : o.question = q)

\* The values of the answer to the top-level question q (none when it is
\* not answered).
ValuesOf(q) == IF q \in DOMAIN responses THEN responses[q].values ELSE <<>>

\* C22: a coded top-level leaf whose answer carries n values gets n
\* observations, the i-th with the i-th value: one for one value, none for
\* no answer or an empty values list.
C22_ObservationPerValue ==
    Built =>
       \A k \in 1..Len(questions) :
          LET q == questions[k]
          IN (def[q].type # "group" /\ def[q].code) =>
                /\ Len(ObsOf(q)) = Len(ValuesOf(q))
                /\ \A i \in 1..Len(ObsOf(q)) :
                      i <= Len(ValuesOf(q)) => ObsOf(q)[i].value = ObsValue(q, ValuesOf(q)[i])

\* ------------------------------------------------------------------ C23
RECURSIVE ChildrenPerRepetition(_, _)
\* The answered coded children of the repetitions from the i-th on, each in
\* the scope of its own repetition: code, submitted value, note.
ChildrenPerRepetition(reps, i) ==
    IF i > Len(reps) THEN <<>>
    ELSE AnsweredCoded(sub[1], 1, create_responses_mapping(reps[i]))
         \o ChildrenPerRepetition(reps, i + 1)

\* The repetitions that hold an answered coded child.
YieldingRepetitions ==
    SelectSeq(Repetitions,
              LAMBDA rep : AnsweredCoded(sub[1], 1, create_responses_mapping(rep)) # <<>>)

\* The observations built for the children of group 1.
ChildObservations == SelectSeq(observations, LAMBDA o : o.question # 1)

\* C23: a repeating group that is not a component carrier is built once per
\* repetition against the answers of that repetition: every repetition with
\* an answered coded child yields an observation for the group followed by
\* the observations of the children answered in it, in repetition order.
C23_PlainRepeatPerRepetition ==
    (Built /\ ~def[1].is_component /\ def[1].repeats) =>
        /\ Len(ObsOf(1)) = Len(YieldingRepetitions)
        /\ [i \in 1..Len(ChildObservations) |-> Component(ChildObservations[i])]
              = ChildrenPerRepetition(Repetitions, 1)
        /\ observations # <<>> => observations[1].question = 1
        /\ \A i \in 1..Len(observations) :
              observations[i].question # 1 =>
                 \E j \in 1..(i - 1) :
                    /\ observations[j].question = 1
                    /\ observations[i].parent = observations[j].id
                    /\ \A k \in (j + 1)..(i - 1) : observations[k].question # 1

\* ------------------------------------------------------------------ C24
\* Question q is a direct child of group g in the pruned tree.
ChildOf(q, g) == \E k \in 1..Len(sub[g]) : sub[g][k] = q

PlainGroup(g) == def[g].type = "group" /\ ~def[g].repeats /\ ~def[g].is_component

\* C24: every observation built for a direct child of a plain group, the
\* observation of a leaf or the own observation of a nested group, has
\* parent equal to the id of the observation of the group, and every parent
\* set in the list is the id of an observation of the list.
C24_ParentLinking ==
    Built =>
       /\ \A i \in 1..Len(observations) : \A g \in Node :
             (PlainGroup(g) /\ ChildOf(observations[i].question, g)) =>
                \E j \in 1..Len(observations) :
                   /\ observations[j].question = g
                   /\ observations[i].parent = observations[j].id
       /\ \A i \in 1..Len(observations) :
             observations[i].parent # 0 =>
                \E j \in 1..Len(observations) : observations[j].id = observations[i].parent

\* ------------------------------------------------------------------ inputs: codes
\* Every tree over string leaves: any questions coded, any groups component
\* carriers, no group repeating; a leaf is answered "a" at the top level or
\* not answered.
InitCodes ==
    /\ status = "active"
    /\ subject_type = "encounter"
    /\ patient_found = TRUE
    /\ encounter_found = TRUE
    /\ \E up \in Trees, coded \in SUBSET Node, carriers \in SUBSET Node,
          answered \in SUBSET Node :
          LET groups == {up[q] : q \in Node} \ {0}
          IN /\ carriers \subseteq groups
             /\ answered \cap groups = {}
             /\ def = [q \in Node |->
                         [Q0(q) EXCEPT !.type = IF q \in groups THEN "group" ELSE "string",
                                       !.code = q \in coded,
                                       !.is_component = q \in carriers]]
             /\ questions = ChildrenOf(up, 0)
             /\ sub = [q \in Node |-> ChildrenOf(up, q)]
             /\ results = [i \in 1..Cardinality(answered) |->
                             Answer(SeqOfSet(answered)[i], <<Val("a")>>)]
    /\ Fresh

SpecCodes == InitCodes /\ [][Next]_vars

\* ------------------------------------------------------------------ C25
\* Group g has no code and no coded question below it.
Codeless(g) == ~def[g].code /\ \A q \in Reach(sub[g], sub) : ~def[q].code

\* C25: an uncoded leaf yields no observation whatever its answer, a group,
\* plain or component carrier, without a code and without a coded descendant
\* yields none, and a plain group has an observation of its own only when an
\* observation was built for one of its children.
C25_NothingWithoutCode ==
    Built =>
       \A q \in Node :
          /\ (def[q].type # "group" /\ ~def[q].code) => ObsOf(q) = <<>>
          /\ (def[q].type = "group" /\ Codeless(q)) => ObsOf(q) = <<>>
          /\ (PlainGroup(q) /\ ObsOf(q) # <<>>) =>
                \E i \in 1..Len(observations) : ChildOf(observations[i].question, q)

\* ------------------------------------------------------------------ C26
\* The error a value of a choice question bound to a valueset gets by its
\* coding alone.
ByCodingAlone(q, v) ==
    IF v.coding = "none" THEN <<TypeError(q, "Coding is required")>>
    ELSE IF validate_valueset(v.coding) = "ok" THEN <<>>
    ELSE <<ValuesetError(q)>>

RECURSIVE EachByCoding(_, _, _)
EachByCoding(q, values, i) ==
    IF i > Len(values) THEN <<>>
    ELSE ByCodingAlone(q, values[i]) \o EachByCoding(q, values, i + 1)

BoundChoice(q) == def[q].type = "choice" /\ def[q].answer_value_set # "absent"

\* C26: for a choice question bound to answer_value_set every considered
\* value yields at most one error, decided by its coding alone: "Coding is
\* required" without a coding, a valueset_error for a coding the validator
\* rejects, none for a coding it accepts.
C26_OneErrorByCoding ==
    ValidationReturned =>
       \A q \in Node :
          (BoundChoice(q) /\ Len(VisitsOf(q)) = 1 /\ VisitsOf(q)[1].values # <<>>) =>
             ErrorsOf(q) = EachByCoding(q, ConsideredValues(q, VisitsOf(q)[1].values), 1)

\* ------------------------------------------------------------------ inputs: codings
\* The submitted codings: none, one the valueset holds, one it does not
\* hold, and one on which the lookup fails with an error other than
\* ValueError.
Codings == {"none", "in", "out", "down"}

\* A flat questionnaire whose question 1 is a choice or a quantity bound to
\* a valueset, repeating or not, answered with at most MaxVals values of any
\* coding; question 2 is an integer answered with a valid or an invalid
\* value.
InitCodings ==
    /\ status = "active"
    /\ subject_type = "encounter"
    /\ patient_found = TRUE
    /\ encounter_found = TRUE
    /\ questions = SeqOfSet(Node)
    /\ sub = [q \in Node |-> <<>>]
    /\ \E type \in {"choice", "quantity"}, rep \in BOOLEAN, second \in {"7", "12.34"} :
          /\ def = [q \in Node |->
                      IF q = 1
                      THEN [Q0(q) EXCEPT !.type = type, !.repeats = rep,
                                         !.answer_value_set = "vs",
                                         !.unit = type = "quantity"]
                      ELSE IF q = 2 THEN [Q0(q) EXCEPT !.type = "integer"]
                      ELSE Q0(q)]
          /\ \E vals \in SeqsUpTo({IF type = "choice" THEN Coded(None, c, FALSE)
                                   ELSE Coded(Str("7"), c, TRUE) : c \in Codings},
                                  MaxVals) :
                results = <<Answer(1, vals), Answer(2, <<Val(second)>>)>>
    /\ Fresh

SpecCodings == InitCodings /\ [][Next]_vars

\* ------------------------------------------------------------------ C27
\* The validator is called on the coding of a considered value of question
\* q (for a choice no value before it lacks a coding) and raises.
ValidatorRaises(q) ==
    /\ q \in DOMAIN responses
    /\ LET values == ConsideredValues(q, responses[q].values)
       IN \E i \in 1..Len(values) :
             /\ def[q].type = "choice" => \A j \in 1..i : values[j].coding # "none"
             /\ validate_valueset(values[i].coding) # "ok"

IsValuesetError(e) == "type" \in DOMAIN e /\ e.type = "valueset_error"

\* C27: whatever error the coding validator raises on a submitted coding,
\* validation records a valueset_error for the question, returns with the
\* collected list and has validated the questions after it.
C27_ValidatorErrorsCollected ==
    (pc \notin {"Received", "Pruned"} /\ ValidatorRaises(1)) =>
        /\ pc = "Rejected"
        /\ \E i \in 1..Len(errors) : IsValuesetError(errors[i]) /\ errors[i].question_id = 1
        /\ InvalidVisit(VisitsOf(2)[1]) =>
              \E i \in 1..Len(errors) : IsTypeError(errors[i]) /\ errors[i].question_id = 2

\* ------------------------------------------------------------------ inputs: malformed rules
\* The rules of the malformed inputs: on question 1 or on a link_id no
\* question carries, with a numeric operator, exists or an operator that is
\* not one of the seven, and an answer that is numeric, not numeric or an
\* integer beyond the float range.
MalformedRules ==
    {[question |-> l, operator |-> op, answer |-> a] :
        l \in {LinkOf(1), NoSuchLink}, op \in {"greater", "exists", "contains"},
        a \in {Str("5"), Str("abc"), Huge}}

\* At most MaxRules such rules on question 2, every enable_behavior;
\* question 1 is not answered, answered with no value, with a number or with
\* a string that is not a number.
InitMalformed ==
    \E ew \in SeqsUpTo(MalformedRules, MaxRules), beh \in {"absent", "all", "any"},
       r \in {"-", "empty", "5", "abc"} :
        /\ ew # <<>>
        /\ FlatInput(TRUE, ew, beh, r # "-", IF r \in {"-", "empty"} THEN <<>> ELSE <<Val(r)>>)

SpecMalformed == InitMalformed /\ [][Next]_vars

\* ------------------------------------------------------------------ C28
\* Rule c is malformed for the submission: its link_id is unknown, its
\* operator is not one of the seven, or it is numeric and one of its sides
\* is not a number (the left side is null when the question is unanswered).
MalformedRule(c) ==
    \/ c.question \notin DOMAIN get_link_id_map(loaded.questions, loaded.sub)
    \/ c.operator \notin Operators
    \/ /\ c.operator \in NumericOperators
       /\ LET m == get_link_id_map(loaded.questions, loaded.sub)
              cv == ConditionValue(m[c.question], create_responses_mapping(submitted))
          IN ~ToFloat(cv).ok \/ ~ToFloat(c.answer).ok

\* An exception left the pruning stage.
PruningFailed == pc = "Failed" /\ raised = "OverflowError"

\* C28: a malformed rule never makes pruning fail: it counts as false, and
\* when it is the only rule of the question, or enable_behavior is "all",
\* the question is pruned with its answer.
C28_MalformedRulesFailClosed ==
    (pc # "Received" /\ \E i \in 1..Len(def[2].enable_when) : MalformedRule(def[2].enable_when[i]))
    => /\ ~PruningFailed
       /\ (Len(def[2].enable_when) = 1 \/ def[2].enable_behavior = "all") =>
             /\ 2 \in disabled
             /\ 2 \notin PrunedQuestions
             /\ 2 \notin DOMAIN responses
             /\ \A i \in 1..Len(results) : results[i].question_id # 2

\* ------------------------------------------------------------------ inputs: pruning and submissions
\* The pruning inputs (trees and rules), the submissions with an entry for
\* no question, and the questions whose enable_when is an empty list.
SpecKeep == (InitPrune \/ InitSubmit \/ InitCombine) /\ [][Next]_vars

\* ------------------------------------------------------------------ C29
\* The entries of the submitted list whose question_id is not in the set S.
Keeping(S) == SelectSeq(submitted, LAMBDA r : r.question_id \notin S)

\* Question q has no enable_when, or an empty one.
Unconditional(q) == ~def[q].has_enable_when \/ def[q].enable_when = <<>>

\* C29: pruning removes from the raw result list only entries of questions
\* whose enable_when evaluated false and of descendants of such groups: the
\* list is the submitted one, in order and with nothing added, less entries
\* of such questions; every answer to a question without enable_when and
\* without a disabled ancestor is kept, every entry for an id that is no
\* question of the questionnaire is kept, and the stored list is that list.
C29_OnlyDisabledRemoved ==
    AfterPruning =>
       /\ \E S \in SUBSET {q \in LoadedQuestions : Removed(q)} : results = Keeping(S)
       /\ \A i \in 1..Len(submitted) :
             LET q == submitted[i].question_id
             IN (q \notin LoadedQuestions
                 \/ (Unconditional(q) /\ ~\E g \in disabled : q \in Descendants(g)))
                => \E j \in 1..Len(results) : results[j] = submitted[i]
       /\ pc = "Persisted" => stored_response = <<results>>

\* A stored submission from which the answer of a disabled question was
\* removed and which keeps, in order, the answer of an enabled question and
\* an entry for an id that is no question.
C29_Witness ==
    /\ pc = "Persisted"
    /\ disabled # {}
    /\ Len(results) < Len(submitted)
    /\ \E i \in 1..Len(results) : results[i].question_id \notin LoadedQuestions
    /\ \E i \in 1..Len(results) : results[i].question_id \in LoadedQuestions
    /\ stored_response = <<results>>

\* ------------------------------------------------------------------ inputs: rules inside a repeating group
\* The ways a string leaf is answered in one scope.
StringAnswers(q) == {<<>>, <<Answer(q, <<Val("5")>>)>>, <<Answer(q, <<Val("abc")>>)>>}

RECURSIVE StringScope(_)
\* The result lists that answer the leaves of the list qs in one scope.
StringScope(qs) ==
    IF qs = <<>> THEN {<<>>}
    ELSE {a \o b : a \in StringAnswers(Head(qs)), b \in StringScope(Tail(qs))}

\* A repeating group g whose last child, question 3, carries one rule on the
\* question ref: either group 1 over the leaves 2 and 3 with the rule on
\* leaf 2, or the top-level leaf 1 and group 2 over leaf 3 with the rule on
\* leaf 1.  The group is not answered or answered with at most MaxReps
\* repetitions; the question the rule is on may be answered at the top level
\* as well.
InitRepeatRules ==
    /\ status = "active"
    /\ subject_type = "encounter"
    /\ patient_found = TRUE
    /\ encounter_found = TRUE
    /\ \E g \in {1, 2}, op \in {"exists", "equals"} :
          LET ref == IF g = 1 THEN 2 ELSE 1
              children == IF g = 1 THEN <<2, 3>> ELSE <<3>>
          IN /\ questions = IF g = 1 THEN <<1>> ELSE <<1, 2>>
             /\ sub = [q \in Node |-> IF q = g THEN children ELSE <<>>]
             /\ def = [q \in Node |->
                         IF q = g THEN [Q0(q) EXCEPT !.type = "group", !.repeats = TRUE]
                         ELSE IF q = 3
                         THEN [Q0(q) EXCEPT
                                 !.has_enable_when = TRUE,
                                 !.enable_when = <<[question |-> LinkOf(ref), operator |-> op,
                                                    answer |-> Str("5")]>>]
                         ELSE Q0(q)]
             /\ \E top \in StringAnswers(ref),
                   reps \in SeqsUpTo(StringScope(children), MaxReps), answered \in BOOLEAN :
                   /\ answered \/ reps = <<>>
                   /\ results = top \o (IF answered
                                        THEN <<[Answer(g, <<>>) EXCEPT !.sub_results = reps]>>
                                        ELSE <<>>)
    /\ Fresh

SpecRepeatRules == InitRepeatRules /\ [][Next]_vars

\* ------------------------------------------------------------------ C30
\* The children of the repeating groups of the questionnaire as loaded.
InRepeatingGroup(q) ==
    \E g \in LoadedQuestions :
        /\ def[g].type = "group" /\ def[g].repeats
        /\ \E k \in 1..Len(loaded.sub[g]) : loaded.sub[g][k] = q

\* C30: pruning neither reads nor changes sub_results: a question nested in
\* a repeating group stays in the tree exactly when its enable_when is true
\* on the top-level response map, whatever the repetitions hold, and every
\* entry of the pruned result list has the sub_results it was submitted
\* with, also when a child of its group was dropped from the tree.
C30_SubResultsUntouched ==
    AfterPruning =>
       /\ \A q \in LoadedQuestions :
             (InRepeatingGroup(q) /\ def[q].has_enable_when) =>
                (q \in PrunedQuestions <=>
                    is_question_enabled(q, create_responses_mapping(submitted),
                                        loaded.questions, loaded.sub))
       /\ \A j \in 1..Len(results) :
             \E i \in 1..Len(submitted) :
                /\ submitted[i].question_id = results[j].question_id
                /\ submitted[i].sub_results = results[j].sub_results

\* A stored submission whose repeating group lost a child in pruning while
\* a repetition answers that child and fulfils its rule.
C30_Witness ==
    /\ pc = "Persisted"
    /\ 3 \in disabled
    /\ \E j \in 1..Len(results) :
          /\ def[results[j].question_id].repeats
          /\ results[j].sub_results # <<>>
          /\ \E k \in 1..Len(results[j].sub_results) :
                LET rep == create_responses_mapping(results[j].sub_results[k])
                IN 3 \in DOMAIN rep /\ is_question_enabled(3, rep, loaded.questions, loaded.sub)
    /\ stored_response = <<results>>

====
